---------------------------- MODULE Spec2Model ----------------------------
(***************************************************************************)
(* Model of saleor's checkout helpers (saleor/checkout/models.py) and of   *)
(* the metadata permission resolvers (saleor/graphql/meta/permissions.py). *)
(*                                                                         *)
(* Six specifications share the  module, one per group of operations:      *)
(*   SpecCountry  Checkout.set_country / Checkout.get_country              *)
(*   SpecEq       CheckoutLine.__eq__                                      *)
(*   SpecLines    CheckoutLine.__hash__, Checkout.get_line                 *)
(*   SpecWeight   Checkout.get_total_weight                                *)
(*   SpecGift     Checkout.get_total_gift_cards_balance                    *)
(*   SpecPerm     PUBLIC_META_PERMISSION_MAP / PRIVATE_META_PERMISSION_MAP *)
(* Every method call is one atomic step (the code is synchronous); its     *)
(* return value is recorded in `ret`, its name in `op`.                    *)
(***************************************************************************)
EXTENDS Integers, Sequences, FiniteSets, TLC

\* ---------------------------------------------------------------- bounds
NumAddresses == 2
MaxLines == 3
NumCards == 3
MaxBalance == 2
NumUsers == 2

\* A null foreign key / Python's None for an object reference.
NULL == 0

AddressIds == 1..NumAddresses
\* ISO codes a country field can hold; "" is the blank country (falsy Country).
CountryCodes == {"PL", "US"}
AddressCountryCodes == CountryCodes \cup {""}
Notes == {"", "gift"}

Checkouts == {1, 2}
Variants == {1, 2}
Quantities == {1, 2}
Datas == {"{}", "{engraving}"}
Weights == {0, 2, 3}
Currencies == {"USD", "EUR"}
CardIds == 1..NumCards
UserIds == 1..NumUsers

VARIABLES
    self,             \* the in-memory Checkout instance (fields used by the helpers)
    row,              \* that checkout's row in the database
    address_country,  \* Address.country.code of every stored address
    saved,            \* update_fields of the save the last call performed ({} = no save)
    prev_op,          \* name of the method called before the last one
    lines,            \* the CheckoutLine table
    variant_weight,   \* what ProductVariant.get_weight() returns for every variant
    currency,         \* Checkout.currency of every checkout
    gift_balance,     \* GiftCard.current_balance_amount of every gift card
    gift_cards,       \* the Checkout.gift_cards many-to-many table: <<checkout, card>>
    users,            \* the User table: pk -> "absent" | "customer" | "staff"
    op,               \* name of the last method called
    arg,              \* its arguments
    ret               \* what it returned (or raised)

countryVars == <<self, row, address_country, saved, prev_op>>
linesVars == <<lines, variant_weight>>
giftVars == <<currency, gift_balance, gift_cards>>
permVars == <<users>>
\* op, arg and ret only record the last call; no operation reads them.
callVars == <<op, arg, ret>>
vars == <<countryVars, linesVars, giftVars, permVars, callVars>>

\* The groups a specification does not exercise stay at one fixed value.
IdleCountry ==
    /\ self = [country |-> "PL", note |-> "", shipping_address |-> NULL,
               billing_address |-> NULL]
    /\ row = self
    /\ address_country = [a \in AddressIds |-> ""]
    /\ saved = {}
    /\ prev_op = "init"
IdleLines == lines = {} /\ variant_weight = [v \in Variants |-> 0]
IdleGift ==
    /\ currency = [c \in Checkouts |-> "USD"]
    /\ gift_balance = [g \in CardIds |-> 0]
    /\ gift_cards = {}
IdlePerm == users = [u \in UserIds |-> "absent"]
InitCall == op = "init" /\ arg = <<>> /\ ret = "None"

\* ---------------------------------------------------- Checkout (country)

\* The fields of Checkout the country helpers read or that a save could write.
CheckoutFields == {"country", "note", "shipping_address", "billing_address"}

\* Mutant of save: update_fields is ignored and every column is written.
save_all_fields(inst, update_fields) ==
    /\ row' = inst
    /\ saved' = update_fields

\* Model.save(update_fields=...): writes exactly the named columns of the
\* row from the instance `inst`; the other columns keep their stored values.
save(inst, update_fields) ==
    /\ row' = [f \in CheckoutFields |->
                  IF f \in update_fields THEN inst[f] ELSE row[f]]
    /\ saved' = update_fields

\* `self.country is not None`: the CountryField descriptor wraps the stored
\* code in a Country object on every read, so the attribute is never None.
country_is_not_None(inst) == inst.country \in CountryCodes \cup {""}

\* Mutant of set_country: the commit flag is dropped, nothing is saved.
set_country_no_commit(country_code, commit, replace) ==
    IF ~replace /\ country_is_not_None(self)
    THEN UNCHANGED <<self, row>> /\ saved' = {}
    ELSE /\ self' = [self EXCEPT !.country = country_code]
         /\ UNCHANGED row /\ saved' = {}

\* Checkout.set_country(country_code, commit=False, replace=True)
set_country(country_code, commit, replace) ==
    IF ~replace /\ country_is_not_None(self)
    THEN UNCHANGED <<self, row>> /\ saved' = {}
    ELSE /\ self' = [self EXCEPT !.country = country_code]
         /\ IF commit
            THEN save(self', {"country"})
            ELSE UNCHANGED row /\ saved' = {}

\* `self.shipping_address or self.billing_address` (a model instance is truthy)
selected_address(inst) ==
    IF inst.shipping_address # NULL THEN inst.shipping_address
    ELSE inst.billing_address

\* Checkout.get_country()
get_country ==
    LET address == selected_address(self)
        saved_country == self.country
    IN  /\ IF address = NULL \/ address_country[address] = ""
           THEN /\ ret' = saved_country
                /\ UNCHANGED <<self, row>>
                /\ saved' = {}
           ELSE LET country_code == address_country[address]
                IN  /\ IF country_code # saved_country
                       THEN set_country(country_code, TRUE, TRUE)
                       ELSE UNCHANGED <<self, row>> /\ saved' = {}
                    /\ ret' = country_code
        /\ op' = "get_country"
        /\ arg' = <<>>
        /\ prev_op' = op
        /\ UNCHANGED <<address_country, linesVars, giftVars, permVars>>

\* A direct call of Checkout.set_country with arbitrary arguments.
call_set_country ==
    \E country_code \in CountryCodes, commit \in BOOLEAN, replace \in BOOLEAN :
        /\ set_country(country_code, commit, replace)
        /\ op' = "set_country"
        /\ arg' = <<country_code, commit, replace>>
        /\ prev_op' = op
        /\ ret' = "None"
        /\ UNCHANGED <<address_country, linesVars, giftVars, permVars>>

\* A checkout loaded from its row, then possibly edited in memory (note).
InitCountry ==
    /\ address_country \in [AddressIds -> AddressCountryCodes]
    /\ row \in [country : CountryCodes, note : Notes,
                shipping_address : AddressIds \cup {NULL},
                billing_address : AddressIds \cup {NULL}]
    /\ \E n \in Notes : self = [row EXCEPT !.note = n]
    /\ saved = {} /\ prev_op = "init"
    /\ IdleLines /\ IdleGift /\ IdlePerm /\ InitCall

NextCountry == get_country \/ call_set_country

SpecCountry == InitCountry /\ [][NextCountry]_vars

\* ------------------------------------------------ CheckoutLine, Checkout

\* A stored CheckoutLine row; `id` is the auto-incremented primary key.
CheckoutLine(id, checkout, variant, quantity, data) ==
    [cls |-> "CheckoutLine", id |-> id, checkout |-> checkout,
     variant |-> variant, quantity |-> quantity, data |-> data]

\* An object that is not a CheckoutLine (for the isinstance test of __eq__).
ProductVariant(pk) == [cls |-> "ProductVariant", id |-> pk]

\* Python's None where a line could be returned.
None == [cls |-> "NoneType"]

\* CheckoutLine.Meta.unique_together = ("checkout", "variant", "data"):
\* whether a new row with this key may be inserted.
unique_together(checkout, variant, data) ==
    \A l \in lines :
        ~(l.checkout = checkout /\ l.variant = variant /\ l.data = data)

\* Inserting a CheckoutLine row; quantity >= 1 (MinValueValidator(1)).
create_line ==
    \E checkout \in Checkouts, variant \in Variants,
       quantity \in Quantities, data \in Datas :
        /\ Cardinality(lines) < MaxLines
        /\ unique_together(checkout, variant, data)
        /\ lines' = lines \cup
              {CheckoutLine(Cardinality(lines) + 1, checkout, variant,
                            quantity, data)}
        /\ op' = "create"
        /\ arg' = <<>>
        /\ ret' = "None"
        /\ UNCHANGED <<variant_weight, countryVars, giftVars, permVars>>

\* CheckoutLine.Meta.ordering = ("id",): a queryset's rows in id order.
RECURSIVE order_by_id(_)
order_by_id(rows) ==
    IF rows = {} THEN <<>>
    ELSE LET first == CHOOSE l \in rows : \A m \in rows : l.id <= m.id
         IN  <<first>> \o order_by_id(rows \ {first})

\* Checkout.__iter__: iter(self.lines.all())
Checkout__iter__(checkout) ==
    order_by_id({l \in lines : l.checkout = checkout})

\* Mutant of __eq__: the data payload is compared too.
eq_with_data(a, other) ==
    IF other.cls # "CheckoutLine" THEN "NotImplemented"
    ELSE /\ a.variant = other.variant
         /\ a.quantity = other.quantity
         /\ a.data = other.data

\* CheckoutLine.__eq__(self, other); variants compare by primary key.
__eq__(a, other) ==
    IF other.cls # "CheckoutLine" THEN "NotImplemented"
    ELSE a.variant = other.variant /\ a.quantity = other.quantity

\* CheckoutLine.__hash__ = models.Model.__hash__: hash(self.pk), and the
\* hash of a small non-negative int is the int itself.
__hash__(a) == a.id

\* Mutant of get_line: the last matching line is returned.
get_line_last(checkout, variant) ==
    LET matching_lines ==
            SelectSeq(Checkout__iter__(checkout),
                      LAMBDA line : line.variant = variant)
    IN  IF matching_lines = <<>> THEN None
        ELSE matching_lines[Len(matching_lines)]

\* Checkout.get_line(variant): next(matching_lines, None)
get_line(checkout, variant) ==
    LET matching_lines ==
            SelectSeq(Checkout__iter__(checkout),
                      LAMBDA line : line.variant = variant)
    IN  IF matching_lines = <<>> THEN None ELSE Head(matching_lines)

\* saleor.core.weight.zero_weight(): the zero of the weight type.
zero_weight == 0

\* The loop of get_total_weight over the remaining lines.
RECURSIVE add_weights(_, _)
add_weights(weights, rest) ==
    IF rest = <<>> THEN weights
    ELSE add_weights(
             weights + variant_weight[Head(rest).variant] * Head(rest).quantity,
             Tail(rest))

\* Mutant of get_total_weight: one contribution per distinct variant.
get_total_weight_per_variant(checkout) ==
    add_weights(zero_weight,
                SelectSeq(Checkout__iter__(checkout),
                          LAMBDA line : line = get_line(checkout, line.variant)))

\* Checkout.get_total_weight()
get_total_weight(checkout) ==
    add_weights(zero_weight, Checkout__iter__(checkout))

call_eq ==
    \E a \in lines :
      \E other \in lines \cup {ProductVariant(a.variant)} :
        /\ op' = "__eq__"
        /\ arg' = <<a, other>>
        /\ ret' = __eq__(a, other)
        /\ UNCHANGED <<linesVars, countryVars, giftVars, permVars>>

call_hash ==
    \E a \in lines :
        /\ op' = "__hash__"
        /\ arg' = <<a>>
        /\ ret' = __hash__(a)
        /\ UNCHANGED <<linesVars, countryVars, giftVars, permVars>>

call_get_line ==
    \E checkout \in Checkouts, variant \in Variants :
        /\ op' = "get_line"
        /\ arg' = <<checkout, variant>>
        /\ ret' = get_line(checkout, variant)
        /\ UNCHANGED <<linesVars, countryVars, giftVars, permVars>>

call_get_total_weight ==
    \E checkout \in Checkouts :
        /\ op' = "get_total_weight"
        /\ arg' = <<checkout>>
        /\ ret' = get_total_weight(checkout)
        /\ UNCHANGED <<linesVars, countryVars, giftVars, permVars>>

InitLines ==
    /\ lines = {}
    /\ variant_weight = [v \in Variants |-> 0]
    /\ IdleCountry /\ IdleGift /\ IdlePerm /\ InitCall

NextLines == create_line \/ call_hash \/ call_get_line

SpecLines == InitLines /\ [][NextLines]_vars

NextEq == create_line \/ call_eq

SpecEq == InitLines /\ [][NextEq]_vars

InitWeight ==
    /\ lines = {}
    /\ variant_weight \in [Variants -> Weights]
    /\ IdleCountry /\ IdleGift /\ IdlePerm /\ InitCall

NextWeight == create_line \/ call_get_total_weight

SpecWeight == InitWeight /\ [][NextWeight]_vars

\* ------------------------------------------------- Checkout (gift cards)

\* prices.Money(amount, currency)
Money(amount, currency_code) == [amount |-> amount, currency |-> currency_code]

\* saleor.core.taxes.zero_money(currency)
zero_money(currency_code) == Money(0, currency_code)

\* models.Sum("current_balance_amount") over a set of gift-card rows.
RECURSIVE Sum_current_balance_amount(_)
Sum_current_balance_amount(cards) ==
    IF cards = {} THEN 0
    ELSE LET g == CHOOSE x \in cards : TRUE
         IN  gift_balance[g] + Sum_current_balance_amount(cards \ {g})

\* Mutant of get_total_gift_cards_balance: the sum runs over every gift
\* card, not only those assigned to the checkout.
get_total_gift_cards_balance_all_cards(checkout) ==
    Money(Sum_current_balance_amount(CardIds), currency[checkout])

\* Checkout.get_total_gift_cards_balance(); the aggregate over no row is
\* SQL NULL (None).
get_total_gift_cards_balance(checkout) ==
    LET cards == {g \in CardIds : <<checkout, g>> \in gift_cards}
        balance_is_None == cards = {}
    IN  IF balance_is_None
        THEN zero_money(currency[checkout])
        ELSE Money(Sum_current_balance_amount(cards), currency[checkout])

\* checkout.gift_cards.add(card): a row of the many-to-many table.
gift_cards_add ==
    \E checkout \in Checkouts, g \in CardIds :
        /\ <<checkout, g>> \notin gift_cards
        /\ gift_cards' = gift_cards \cup {<<checkout, g>>}
        /\ op' = "gift_cards.add"
        /\ arg' = <<checkout, g>>
        /\ ret' = "None"
        /\ UNCHANGED <<currency, gift_balance, countryVars, linesVars, permVars>>

call_get_total_gift_cards_balance ==
    \E checkout \in Checkouts :
        /\ op' = "get_total_gift_cards_balance"
        /\ arg' = <<checkout>>
        /\ ret' = get_total_gift_cards_balance(checkout)
        /\ UNCHANGED <<giftVars, countryVars, linesVars, permVars>>

InitGift ==
    /\ currency \in [Checkouts -> Currencies]
    /\ gift_balance \in [CardIds -> 0..MaxBalance]
    /\ gift_cards = {}
    /\ IdleCountry /\ IdleLines /\ IdlePerm /\ InitCall

NextGift == gift_cards_add \/ call_get_total_gift_cards_balance

SpecGift == InitGift /\ [][NextGift]_vars

\* ------------------------------------------- metadata permission lookup

\* How a resolver call ends: a returned permission list or a raised error.
returns(permissions) == [raised |-> "", value |-> permissions]
raises(exception) == [raised |-> exception, value |-> <<>>]

\* account_models.User.objects.filter(pk=user_pk).first() found a user
user_exists(user_pk) == user_pk \in UserIds /\ users[user_pk] # "absent"
is_staff(user_pk) == users[user_pk] = "staff"

no_permissions(info_user_pk, object_pk) == returns(<<>>)

\* Mutant of public_user_permissions: is_staff is tested before self-access.
public_user_permissions_staff_first(info_user_pk, user_pk) ==
    IF ~user_exists(user_pk) THEN raises("PermissionDenied")
    ELSE IF is_staff(user_pk) THEN returns(<<"MANAGE_STAFF">>)
    ELSE IF info_user_pk = user_pk THEN returns(<<>>)
    ELSE returns(<<"MANAGE_USERS">>)

\* Mutant of public_user_permissions: self-access is tested before existence.
public_user_permissions_self_first(info_user_pk, user_pk) ==
    IF info_user_pk = user_pk THEN returns(<<>>)
    ELSE IF ~user_exists(user_pk) THEN raises("PermissionDenied")
    ELSE IF is_staff(user_pk) THEN returns(<<"MANAGE_STAFF">>)
    ELSE returns(<<"MANAGE_USERS">>)

\* public_user_permissions(info, user_pk); info_user_pk is info.context.user.pk
public_user_permissions(info_user_pk, user_pk) ==
    IF ~user_exists(user_pk) THEN raises("PermissionDenied")
    ELSE IF info_user_pk = user_pk THEN returns(<<>>)
    ELSE IF is_staff(user_pk) THEN returns(<<"MANAGE_STAFF">>)
    ELSE returns(<<"MANAGE_USERS">>)

\* Mutant of private_user_permissions: self-access yields no permission.
private_user_permissions_self_access(info_user_pk, user_pk) ==
    public_user_permissions(info_user_pk, user_pk)

\* private_user_permissions(_info, user_pk)
private_user_permissions(info_user_pk, user_pk) ==
    IF ~user_exists(user_pk) THEN raises("PermissionDenied")
    ELSE IF is_staff(user_pk) THEN returns(<<"MANAGE_STAFF">>)
    ELSE returns(<<"MANAGE_USERS">>)

product_permissions(info_user_pk, object_pk) == returns(<<"MANAGE_PRODUCTS">>)
order_permissions(info_user_pk, object_pk) == returns(<<"MANAGE_ORDERS">>)
service_account_permissions(info_user_pk, object_pk) ==
    returns(<<"MANAGE_SERVICE_ACCOUNTS">>)
checkout_permissions(info_user_pk, object_pk) == returns(<<"MANAGE_CHECKOUTS">>)

TypeNames ==
    {"Attribute", "Category", "Checkout", "Collection", "DigitalContent",
     "Fulfillment", "Order", "Product", "ProductType", "ProductVariant",
     "ServiceAccount", "User"}

\* PUBLIC_META_PERMISSION_MAP[type_name](info, object_pk)
PUBLIC_META_PERMISSION_MAP(type_name, info_user_pk, object_pk) ==
    CASE type_name \in {"Checkout", "Order"} ->
            no_permissions(info_user_pk, object_pk)
      [] type_name = "Fulfillment" -> order_permissions(info_user_pk, object_pk)
      [] type_name = "ServiceAccount" ->
            service_account_permissions(info_user_pk, object_pk)
      [] type_name = "User" -> public_user_permissions(info_user_pk, object_pk)
      [] OTHER -> product_permissions(info_user_pk, object_pk)

\* PRIVATE_META_PERMISSION_MAP[type_name](info, object_pk)
PRIVATE_META_PERMISSION_MAP(type_name, info_user_pk, object_pk) ==
    CASE type_name = "Checkout" -> checkout_permissions(info_user_pk, object_pk)
      [] type_name \in {"Fulfillment", "Order"} ->
            order_permissions(info_user_pk, object_pk)
      [] type_name = "ServiceAccount" ->
            service_account_permissions(info_user_pk, object_pk)
      [] type_name = "User" -> private_user_permissions(info_user_pk, object_pk)
      [] OTHER -> product_permissions(info_user_pk, object_pk)

\* Primary keys a request can carry: a user id, or None (AnonymousUser.pk,
\* or an object id that names nothing).
Pks == UserIds \cup {NULL}

resolve_public ==
    \E type_name \in TypeNames, info_user_pk \in Pks, object_pk \in Pks :
        /\ op' = "PUBLIC_META_PERMISSION_MAP"
        /\ arg' = <<type_name, info_user_pk, object_pk>>
        /\ ret' = PUBLIC_META_PERMISSION_MAP(type_name, info_user_pk, object_pk)
        /\ UNCHANGED <<permVars, countryVars, linesVars, giftVars>>

resolve_private ==
    \E type_name \in TypeNames, info_user_pk \in Pks, object_pk \in Pks :
        /\ op' = "PRIVATE_META_PERMISSION_MAP"
        /\ arg' = <<type_name, info_user_pk, object_pk>>
        /\ ret' = PRIVATE_META_PERMISSION_MAP(type_name, info_user_pk, object_pk)
        /\ UNCHANGED <<permVars, countryVars, linesVars, giftVars>>

InitPerm ==
    /\ users \in [UserIds -> {"absent", "customer", "staff"}]
    /\ IdleCountry /\ IdleLines /\ IdleGift /\ InitCall

NextPerm == resolve_public \/ resolve_private

SpecPerm == InitPerm /\ [][NextPerm]_vars

\* ------------------------------------------------------ claims: country

\* The selected address exists and has a (non-blank) country.
has_address_country(inst) ==
    /\ selected_address(inst) # NULL
    /\ address_country[selected_address(inst)] # ""

\* C1 as stated: after get_country on a checkout whose selected address has
\* a country, the call returned that address's code and the country field
\* equals it both in memory and in the database row; without such an
\* address the cached code is returned.
C1_AsStated ==
    op = "get_country" =>
        IF has_address_country(self)
        THEN LET code == address_country[selected_address(self)]
             IN  ret = code /\ self.country = code /\ row.country = code
        ELSE ret = self.country

\* C1 amended: get_country returns the selected address's code and leaves
\* the in-memory country equal to it; the row is written (to that code)
\* exactly when the cached country differed from the code before the call,
\* and otherwise keeps the country it stored.  Without a selected address
\* that has a country, the cached code is returned.
C1_GetCountry ==
    [][op' = "get_country" =>
        IF has_address_country(self)
        THEN LET code == address_country[selected_address(self)]
             IN  /\ ret' = code
                 /\ self'.country = code
                 /\ (self.country # code =>
                        row'.country = code /\ saved' = {"country"})
                 /\ (self.country = code =>
                        row'.country = row.country /\ saved' = {})
        ELSE ret' = self.country]_vars

\* C1 witness: a get_country call that corrected a cached country which
\* disagreed with the shipping address, and persisted the correction.
C1_Witness ==
    /\ op = "get_country"
    /\ saved = {"country"}
    /\ self.shipping_address # NULL
    /\ ret = address_country[self.shipping_address]
    /\ row.country = ret /\ self.country = ret

\* C10: get_country writes nothing when there is nothing to correct (no
\* selected address, a blank address country, or the address code already
\* cached); a get_country call directly after another returns the same code
\* and saves nothing; and a correcting save writes the country column only,
\* leaving every other column of the row and field of the instance alone.
C10_GetCountryFrame ==
    [][op' = "get_country" =>
        /\ (\/ ~has_address_country(self)
            \/ address_country[selected_address(self)] = self.country)
              => (self' = self /\ row' = row /\ saved' = {})
        /\ op = "get_country" => (ret' = ret /\ saved' = {})
        /\ saved' \subseteq {"country"}
        /\ \A f \in CheckoutFields \ {"country"} :
              row'[f] = row[f] /\ self'[f] = self[f]]_vars

\* C10 witness: a second consecutive get_country call on a checkout whose
\* cached country agrees with its address, with an unsaved note edit in
\* memory that no save has written.
C10_Witness ==
    /\ op = "get_country" /\ prev_op = "get_country"
    /\ saved = {}
    /\ has_address_country(self)
    /\ ret = self.country
    /\ self.note # row.note

\* -------------------------------------------------------- claims: lines

\* C2: for two CheckoutLine objects, a == b holds iff their variants and
\* their quantities are equal, whatever their data, checkouts or ids; so two
\* lines of one checkout with the same variant and different data compare
\* equal whenever their quantities agree.
C2_EqVariantQuantity ==
    (op = "__eq__" /\ arg[2].cls = "CheckoutLine") =>
        LET a == arg[1]
            b == arg[2]
        IN  /\ ret \in BOOLEAN
            /\ ret <=> (a.variant = b.variant /\ a.quantity = b.quantity)
            /\ (a.checkout = b.checkout /\ a.variant = b.variant
                /\ a.data # b.data /\ a.quantity = b.quantity) => ret

\* C2 witness: two distinct lines of one checkout, same variant, different
\* data, equal quantities, were compared and found equal.
C2_Witness ==
    /\ op = "__eq__"
    /\ arg[2].cls = "CheckoutLine"
    /\ arg[1].id # arg[2].id
    /\ arg[1].checkout = arg[2].checkout
    /\ arg[1].variant = arg[2].variant
    /\ arg[1].data # arg[2].data
    /\ ret = TRUE

\* C3 as stated: any two CheckoutLine rows with the same variant and the
\* same quantity (which therefore compare equal) have the same hash.
C3_EqualLinesSameHash ==
    \A a \in lines, b \in lines :
        (__eq__(a, b) = TRUE) => __hash__(a) = __hash__(b)

RECURSIVE SumLineWeights(_)
SumLineWeights(rows) ==
    IF rows = {} THEN 0
    ELSE LET l == CHOOSE x \in rows : TRUE
         IN  variant_weight[l.variant] * l.quantity
                 + SumLineWeights(rows \ {l})

\* C8: get_total_weight returns the sum over all lines of the checkout of
\* variant weight * quantity, every line of a repeated variant counting, and
\* the zero weight for a checkout without lines.
C8_TotalWeight ==
    op = "get_total_weight" =>
        LET own == {l \in lines : l.checkout = arg[1]}
        IN  /\ ret = SumLineWeights(own)
            /\ own = {} => ret = zero_weight

\* C8 witness: the total weight of a checkout with two lines of one variant
\* of non-zero weight (and a line of another checkout) was computed.
C8_Witness ==
    /\ op = "get_total_weight"
    /\ ret > 0
    /\ \E l, m \in lines :
          /\ l.id # m.id
          /\ l.checkout = arg[1] /\ m.checkout = arg[1]
          /\ l.variant = m.variant
          /\ variant_weight[l.variant] > 0
    /\ \E o \in lines : o.checkout # arg[1]

\* --------------------------------------------------- claims: gift cards

\* The balances of the cards 1..n that belong to `cards`, added in id order.
RECURSIVE BalanceUpTo(_, _)
BalanceUpTo(n, cards) ==
    IF n = 0 THEN 0
    ELSE (IF n \in cards THEN gift_balance[n] ELSE 0) + BalanceUpTo(n - 1, cards)

\* C7: get_total_gift_cards_balance returns money in the checkout's
\* currency whose amount is the sum of current_balance_amount over exactly
\* the gift cards attached to that checkout, and zero money in the
\* checkout's currency when no card is attached.
C7_GiftCardsBalance ==
    op = "get_total_gift_cards_balance" =>
        LET attached == {g \in CardIds : <<arg[1], g>> \in gift_cards}
        IN  /\ ret.currency = currency[arg[1]]
            /\ ret.amount = BalanceUpTo(NumCards, attached)
            /\ attached = {} => ret = [amount |-> 0, currency |-> currency[arg[1]]]

\* C7 witness: the balance of a checkout with two attached cards was
\* computed while another card with a balance belongs to the other checkout
\* only, and the two checkouts use different currencies.
C7_Witness ==
    /\ op = "get_total_gift_cards_balance"
    /\ ret.amount > 0
    /\ Cardinality({g \in CardIds : <<arg[1], g>> \in gift_cards}) >= 2
    /\ \E g \in CardIds, other \in Checkouts :
          /\ other # arg[1]
          /\ <<other, g>> \in gift_cards /\ <<arg[1], g>> \notin gift_cards
          /\ gift_balance[g] > 0
          /\ currency[other] # currency[arg[1]]

\* -------------------------------------------------- claims: permissions

IsUserLookup == op \in {"PUBLIC_META_PERMISSION_MAP", "PRIVATE_META_PERMISSION_MAP"}
                    /\ arg[1] = "User"

\* C4: public_user_permissions returns an empty permission list whenever
\* the target user exists and the requester's id equals the target's id,
\* staff or not.
C4_PublicSelfAccess ==
    (op = "PUBLIC_META_PERMISSION_MAP" /\ arg[1] = "User"
        /\ user_exists(arg[3]) /\ arg[2] = arg[3])
    => ret = returns(<<>>)

\* C4 witness: a staff user resolved the public permissions of their own
\* account and got the empty list.
C4_Witness ==
    /\ op = "PUBLIC_META_PERMISSION_MAP" /\ arg[1] = "User"
    /\ user_exists(arg[3]) /\ arg[2] = arg[3]
    /\ is_staff(arg[3])
    /\ ret = returns(<<>>)

\* C5 as stated: in both maps the "User" resolver yields [MANAGE_STAFF]
\* exactly when the existing target is staff and is not the requester; a
\* non-staff target other than the requester yields [MANAGE_USERS]; and
\* self-access never yields MANAGE_STAFF.
C5_AsStated ==
    (IsUserLookup /\ user_exists(arg[3])) =>
        /\ (ret = returns(<<"MANAGE_STAFF">>))
              <=> (is_staff(arg[3]) /\ arg[2] # arg[3])
        /\ (~is_staff(arg[3]) /\ arg[2] # arg[3])
              => ret = returns(<<"MANAGE_USERS">>)

\* C5 amended: in the public map the "User" resolver yields [MANAGE_STAFF]
\* exactly when the existing target is staff and is not the requester, and
\* [MANAGE_USERS] for a non-staff target other than the requester; in the
\* private map it yields [MANAGE_STAFF] exactly when the existing target is
\* staff, the requester included, and [MANAGE_USERS] for every non-staff
\* target.
C5_UserResolvers ==
    (IsUserLookup /\ user_exists(arg[3])) =>
        IF op = "PUBLIC_META_PERMISSION_MAP"
        THEN /\ (ret = returns(<<"MANAGE_STAFF">>))
                   <=> (is_staff(arg[3]) /\ arg[2] # arg[3])
             /\ (~is_staff(arg[3]) /\ arg[2] # arg[3])
                   => ret = returns(<<"MANAGE_USERS">>)
        ELSE /\ (ret = returns(<<"MANAGE_STAFF">>)) <=> is_staff(arg[3])
             /\ ~is_staff(arg[3]) => ret = returns(<<"MANAGE_USERS">>)

\* C5 witness: a staff user resolved the private permissions of their own
\* account and was asked for MANAGE_STAFF.
C5_Witness ==
    /\ op = "PRIVATE_META_PERMISSION_MAP" /\ arg[1] = "User"
    /\ user_exists(arg[3]) /\ is_staff(arg[3]) /\ arg[2] = arg[3]
    /\ ret = returns(<<"MANAGE_STAFF">>)

\* C6: when the target id matches no user, both "User" resolvers end with
\* PermissionDenied and return no permission list, for every requester,
\* also one whose own id is the missing id.
C6_MissingUserDenied ==
    (IsUserLookup /\ ~user_exists(arg[3])) => ret = raises("PermissionDenied")

\* C6 witness: the public resolver was asked about a missing user id by a
\* requester carrying that same id, and raised PermissionDenied.
C6_Witness ==
    /\ op = "PUBLIC_META_PERMISSION_MAP" /\ arg[1] = "User"
    /\ arg[3] \in UserIds /\ ~user_exists(arg[3])
    /\ arg[2] = arg[3]
    /\ ret.raised = "PermissionDenied"

=============================================================================
